---- MODULE Spec2Model ----
(***************************************************************************)
(* RelaySchemaUtils (src/experimental/compiler/core/RelaySchemaUtils.js):  *)
(* type classification, type compatibility, identity-field detection,      *)
(* directive-set composition and syntax-node classification.               *)
(*                                                                         *)
(* JavaScript values are modelled as follows.                              *)
(*   - a named GraphQL type object is [kind, oid]: kind is the class the   *)
(*     `instanceof` checks test, oid is the object's identity (===);       *)
(*   - GraphQLList / GraphQLNonNull are [kind, ofType];                    *)
(*   - a JS boolean / undefined / thrown error returned by a call is one   *)
(*     of the strings "true", "false", "undefined", "InvariantViolation".  *)
(***************************************************************************)
EXTENDS Integers, Sequences, FiniteSets

\* ---------------------------------------------------------------- bounds
\* Deepest List/NonNull nesting of the type references handed to the calls.
MaxDepth == 3
\* Longest `directives` argument handed to schemaWithDirectives.
MaxNew == 2
\* Number of schemaWithDirectives calls that are counted (later ones still run).
MaxCalls == 2
\* Number of distinct syntax-node objects per kind.
MaxNodes == 2

\* ------------------------------------------------- the type object universe
\* src line 52-53
ID == "id"
ID_TYPE == "ID"

ScalarOids == {"ID#1", "ID#2"}
ObjectOids == {"User", "Page", "Comment"}
InterfaceOids == {"Node", "Actor"}
UnionOids == {"Entity"}
EnumOids == {"Color"}
InputObjectOids == {"Filter"}
Oids == ScalarOids \cup ObjectOids \cup InterfaceOids \cup UnionOids
          \cup EnumOids \cup InputObjectOids

\* The class of a named type object (what `instanceof` distinguishes).
KindOf(oid) ==
  CASE oid \in ScalarOids -> "Scalar"
    [] oid \in ObjectOids -> "Object"
    [] oid \in InterfaceOids -> "Interface"
    [] oid \in UnionOids -> "Union"
    [] oid \in EnumOids -> "Enum"
    [] OTHER -> "InputObject"

\* type.toString() / type.name of a named type object.  "ID#1" and "ID#2" are
\* two distinct type objects that both carry the name "ID".
NameOf(oid) == IF oid \in {"ID#1", "ID#2"} THEN "ID" ELSE oid

Named(oid) == [kind |-> KindOf(oid), oid |-> oid]
List(t) == [kind |-> "List", ofType |-> t]
NonNull(t) == [kind |-> "NonNull", ofType |-> t]
Undefined == [kind |-> "undefined"]

NamedTypes == {Named(o) : o \in Oids}
WrapperKinds == {"List", "NonNull"}

\* Well-formed type references of nesting depth <= n (NonNull never wraps NonNull).
RECURSIVE Refs(_)
Refs(n) ==
  IF n = 0 THEN NamedTypes
  ELSE LET S == Refs(n - 1)
       IN  S \cup {List(r) : r \in S}
             \cup {NonNull(r) : r \in {q \in S : q.kind # "NonNull"}}

TypeRefs == Refs(MaxDepth)

\* objectType.getInterfaces(): the interface type objects an Object declares.
InterfacesOf(oid) ==
  CASE oid = "User" -> {Named("Node")}
    [] oid = "Page" -> {Named("Node"), Named("Actor")}
    [] OTHER -> {}

\* type.getFields(): field name -> field, for Object and Interface types.
FieldsOf(oid) ==
  CASE oid = "User" -> [f \in {"id", "name"} |->
                          IF f = "id" THEN [name |-> f, type |-> NonNull(Named("ID#1"))]
                          ELSE [name |-> f, type |-> Named("Color")]]
    [] oid = "Page" -> [f \in {"id"} |-> [name |-> f, type |-> List(NonNull(Named("ID#2")))]]
    [] oid = "Node" -> [f \in {"id"} |-> [name |-> f, type |-> Named("ID#1")]]
    [] oid = "Actor" -> [f \in {"id"} |-> [name |-> f, type |-> NonNull(Named("Color"))]]
    [] OTHER -> [f \in {"body"} |-> [name |-> f, type |-> Named("Color")]]

TypeNames == {NameOf(o) : o \in Oids} \cup {"Missing"}

\* ------------------------------------------------------------ program state
VARIABLES
  schema,          \* the GraphQLSchema object the calls are made against
  original,        \* history: the value of `schema` before the first call
  ncalls,          \* history: schemaWithDirectives calls made so far (capped)
  inType,          \* the type reference the type calls are made with
  inName,          \* the name the type calls are made with
  inAst,           \* the syntax node the AST calls are made with
  pc,              \* "idle", or the call whose loop is running
  unmodifiedType,  \* getSingularType: its local `unmodifiedType`
  iters,           \* history: iterations of getSingularType's loop so far
  ret              \* the outcome of the most recent call; none while one runs

vars == <<schema, original, ncalls, inType, inName, inAst, pc, unmodifiedType, iters, ret>>

\* A JS boolean as returned to the caller.
Js(b) == IF b THEN "true" ELSE "false"

\* --------------------------------------------------- the schema's accessors
\* schema.getType(name): the type object registered under `name`, or undefined.
getType(s, name) ==
  IF \E o \in s.types : NameOf(o) = name
  THEN Named(CHOOSE o \in s.types : NameOf(o) = name)
  ELSE Undefined

\* schema.getPossibleTypes(abstractType): a union's members, an interface's
\* implementers among the schema's types.
getPossibleTypes(s, t) ==
  IF t.kind = "Union"
  THEN {Named(o) : o \in s.members}
  ELSE {Named(o) : o \in {x \in s.types : KindOf(x) = "Object" /\ t \in InterfacesOf(x)}}

\* ------------------------------------------------------------ TypeClassifier
\* graphql's getNamedType: unwraps every List and NonNull layer.
RECURSIVE getNamedType(_)
getNamedType(type) ==
  IF type.kind \in WrapperKinds THEN getNamedType(type.ofType) ELSE type

\* nullthrows(getNamedType(type)); getNamedType of a type reference is never null.
getRawType(type) == getNamedType(type)

\* Seeded fault: unwraps List/NonNull before testing the class.
canHaveSelections_unwraps(type) ==
  getNamedType(type).kind = "Object" \/ getNamedType(type).kind = "Interface"

canHaveSelections(type) == type.kind = "Object" \/ type.kind = "Interface"

isAbstractType(type) ==
  LET rawType == getRawType(type)
  IN  rawType.kind = "Interface" \/ rawType.kind = "Union"

\* --------------------------------------------------------- TypeCompatibility
getInterfaces(type) ==
  IF type.kind = "Object" THEN InterfacesOf(type.oid) ELSE {}

\* Seeded fault: looks at the raw type instead of the value it is given.
implementsInterface_unwraps(type, interfaceName) ==
  \E interfaceType \in getInterfaces(getRawType(type)) :
    NameOf(interfaceType.oid) = interfaceName

implementsInterface(type, interfaceName) ==
  \E interfaceType \in getInterfaces(type) : NameOf(interfaceType.oid) = interfaceName

\* schema.getPossibleTypes(assertAbstractType(type)): graphql's assertAbstractType
\* tests the value itself (no unwrapping) and throws on anything but an
\* Interface or Union.
getConcreteTypes(s, type) ==
  IF type.kind = "Interface" \/ type.kind = "Union"
  THEN [threw |-> FALSE, types |-> getPossibleTypes(s, type)]
  ELSE [threw |-> TRUE, types |-> {}]

\* Seeded fault: `every` in place of `some`.
hasConcreteTypeThatImplements_every(s, type, interfaceName) ==
  IF ~isAbstractType(type)
  THEN [val |-> FALSE, threw |-> FALSE, probed |-> <<>>]
  ELSE LET c == getConcreteTypes(s, type)
       IN  [val |-> ~c.threw /\ \A concreteType \in c.types :
                                   implementsInterface(concreteType, interfaceName),
            threw |-> c.threw,
            probed |-> <<type>>]

\* Returns the value, whether the call threw, and the arguments it handed to
\* getConcreteTypes.
hasConcreteTypeThatImplements(s, type, interfaceName) ==
  IF ~isAbstractType(type)
  THEN [val |-> FALSE, threw |-> FALSE, probed |-> <<>>]
  ELSE LET c == getConcreteTypes(s, type)
       IN  [val |-> ~c.threw /\ \E concreteType \in c.types :
                                   implementsInterface(concreteType, interfaceName),
            threw |-> c.threw,
            probed |-> <<type>>]

\* Seeded fault: hands `type`, not the unwrapped `unmodifiedType`, to the enumeration.
mayImplement_passesWrapped(s, type, typeName) ==
  LET unmodifiedType_ == getRawType(type)
  IN  IF NameOf(unmodifiedType_.oid) = typeName
        \/ implementsInterface(unmodifiedType_, typeName)
      THEN [val |-> TRUE, threw |-> FALSE, probed |-> <<>>]
      ELSE IF ~isAbstractType(unmodifiedType_)
      THEN [val |-> FALSE, threw |-> FALSE, probed |-> <<>>]
      ELSE hasConcreteTypeThatImplements(s, type, typeName)

mayImplement(s, type, typeName) ==
  LET unmodifiedType_ == getRawType(type)
  IN  IF NameOf(unmodifiedType_.oid) = typeName
        \/ implementsInterface(unmodifiedType_, typeName)
      THEN [val |-> TRUE, threw |-> FALSE, probed |-> <<>>]
      ELSE IF ~isAbstractType(unmodifiedType_)
      THEN [val |-> FALSE, threw |-> FALSE, probed |-> <<>>]
      ELSE hasConcreteTypeThatImplements(s, unmodifiedType_, typeName)

\* ----------------------------------------------------- IdentityFieldDetector
\* `return idField && getRawType(idField.type) === idType`: with no field named
\* "id", idField is undefined and that is what && yields.
hasID(s, type) ==
  LET unmodifiedType_ == getRawType(type)
  IN  IF ~(unmodifiedType_.kind = "Object" \/ unmodifiedType_.kind = "Interface")
      THEN "InvariantViolation"
      ELSE LET idType == getType(s, ID_TYPE)
               fields == FieldsOf(unmodifiedType_.oid)
           IN  IF ID \notin DOMAIN fields
               THEN "undefined"
               ELSE Js(getRawType(fields[ID].type) = idType)

\* Seeded fault: the loop also strips NonNull layers.
isGraphQLList_orNonNull(type) == type.kind = "List" \/ type.kind = "NonNull"

\* `unmodifiedType instanceof GraphQLList`, the condition of getSingularType's loop.
isGraphQLList(type) == type.kind = "List"

\* ------------------------------------------------------------ SchemaComposer
DirectiveNames == {"include", "skip", "relay"}
DirectiveLocations == {"FIELD", "FRAGMENT_SPREAD"}
Directives == [name : DirectiveNames, loc : DirectiveLocations]

\* Sequences over S of length <= n.
RECURSIVE SeqsUpTo(_, _)
SeqsUpTo(S, n) ==
  IF n = 0 THEN {<<>>}
  ELSE LET T == SeqsUpTo(S, n - 1)
       IN  T \cup {Append(t, x) : t \in T, x \in S}

\* assertNamedType: throws unless getNamedType(type) is `type` itself.
assertNamedType(type) ==
  [threw |-> getNamedType(type) # type, value |-> type]

\* Seeded fault: the set holds the directives themselves, not their names.
RECURSIVE scanDirectives_byValue(_, _, _)
scanDirectives_byValue(combinedDirectives, i, seen) ==
  IF i > Len(combinedDirectives) THEN ""
  ELSE IF combinedDirectives[i] \in seen
  THEN combinedDirectives[i].name
  ELSE scanDirectives_byValue(combinedDirectives, i + 1,
                              seen \cup {combinedDirectives[i]})

\* The forEach of lines 207-215 from index i on, directiveNames being the names
\* added so far: the name that trips the invariant, or "" when none does.
RECURSIVE scanDirectives(_, _, _)
scanDirectives(combinedDirectives, i, directiveNames) ==
  IF i > Len(combinedDirectives) THEN ""
  ELSE IF combinedDirectives[i].name \in directiveNames
  THEN combinedDirectives[i].name
  ELSE scanDirectives(combinedDirectives, i + 1,
                      directiveNames \cup {combinedDirectives[i].name})

\* new GraphQLSchema({query, mutation, subscription, types, directives}).
GraphQLSchema(config) ==
  [types |-> {t.oid : t \in config.types},
   members |-> config.members,
   directives |-> config.directives,
   query |-> config.query,
   mutation |-> config.mutation,
   subscription |-> config.subscription]

\* Seeded fault: appends to the schema's own directive array instead of copying it.
schemaWithDirectives_pushesInPlace(s, directives) ==
  LET combinedDirectives == s.directives \o directives
      duplicate == scanDirectives(combinedDirectives, 1, {})
      mutated == [s EXCEPT !.directives = combinedDirectives]
  IN  IF duplicate # ""
      THEN [threw |-> TRUE, error |-> duplicate, value |-> Undefined, source |-> mutated]
      ELSE [threw |-> FALSE, error |-> "",
            value |-> GraphQLSchema([query |-> s.query,
                                     mutation |-> s.mutation,
                                     subscription |-> s.subscription,
                                     types |-> {Named(o) : o \in s.types},
                                     members |-> s.members,
                                     directives |-> combinedDirectives]),
            source |-> mutated]

\* Seeded fault: the new schema gets only the new directives.
schemaWithDirectives_newOnly(s, directives) ==
  LET combinedDirectives == s.directives \o directives
      duplicate == scanDirectives(combinedDirectives, 1, {})
  IN  IF duplicate # ""
      THEN [threw |-> TRUE, error |-> duplicate, value |-> Undefined, source |-> s]
      ELSE [threw |-> FALSE, error |-> "",
            value |-> GraphQLSchema([query |-> s.query,
                                     mutation |-> s.mutation,
                                     subscription |-> s.subscription,
                                     types |-> {Named(o) : o \in s.types},
                                     members |-> s.members,
                                     directives |-> directives]),
            source |-> s]

\* The call's outcome: whether it threw, the name in the error, the returned
\* schema, and `source`, the argument schema object as the call leaves it (the
\* code only calls getters on it).
schemaWithDirectives(s, directives) ==
  LET combinedDirectives == s.directives \o directives
      duplicate == scanDirectives(combinedDirectives, 1, {})
      asserted == {assertNamedType(Named(o)) : o \in s.types}
  IN  IF duplicate # ""
      THEN [threw |-> TRUE, error |-> duplicate, value |-> Undefined, source |-> s]
      ELSE IF \E a \in asserted : a.threw
      THEN [threw |-> TRUE, error |-> "named type", value |-> Undefined, source |-> s]
      ELSE [threw |-> FALSE, error |-> "",
            value |-> GraphQLSchema([query |-> s.query,
                                     mutation |-> s.mutation,
                                     subscription |-> s.subscription,
                                     types |-> {a.value : a \in asserted},
                                     members |-> s.members,
                                     directives |-> combinedDirectives]),
            source |-> s]

\* -------------------------------------------------------------- ASTClassifier
OperationKinds == {"FragmentDefinition", "OperationDefinition"}
SchemaDefinitionKinds ==
  {"DirectiveDefinition", "EnumTypeDefinition", "InputObjectTypeDefinition",
   "InterfaceTypeDefinition", "ObjectTypeDefinition", "ScalarTypeDefinition",
   "TypeExtensionDefinition", "UnionTypeDefinition"}
OtherKinds == {"FieldDefinition", "Directive", "Field", "SchemaDefinition"}
Kinds == OperationKinds \cup SchemaDefinitionKinds \cup OtherKinds
ASTNodes == [kind : Kinds, id : 1..MaxNodes]
Null == [kind |-> "null", id |-> 0]

isOperationDefinitionAST(ast) ==
  ast.kind = "FragmentDefinition" \/ ast.kind = "OperationDefinition"

getOperationDefinitionAST(ast) ==
  IF isOperationDefinitionAST(ast) THEN ast ELSE Null

\* Seeded fault: also accepts fragment definitions.
isSchemaDefinitionAST_plusFragment(ast) ==
  \/ ast.kind = "FragmentDefinition"
  \/ ast.kind = "DirectiveDefinition"
  \/ ast.kind = "EnumTypeDefinition"
  \/ ast.kind = "InputObjectTypeDefinition"
  \/ ast.kind = "InterfaceTypeDefinition"
  \/ ast.kind = "ObjectTypeDefinition"
  \/ ast.kind = "ScalarTypeDefinition"
  \/ ast.kind = "TypeExtensionDefinition"
  \/ ast.kind = "UnionTypeDefinition"

isSchemaDefinitionAST(ast) ==
  \/ ast.kind = "DirectiveDefinition"
  \/ ast.kind = "EnumTypeDefinition"
  \/ ast.kind = "InputObjectTypeDefinition"
  \/ ast.kind = "InterfaceTypeDefinition"
  \/ ast.kind = "ObjectTypeDefinition"
  \/ ast.kind = "ScalarTypeDefinition"
  \/ ast.kind = "TypeExtensionDefinition"
  \/ ast.kind = "UnionTypeDefinition"

\* ------------------------------------------------------------ initial states
\* The schemas the calls are made against: the schema registers at most one type
\* object under each name (so at most one of the two "ID" objects), may or may
\* not define Page, and its union Entity has members among its Object types.
CoreOids == Oids \ {"ID#1", "ID#2", "Page"}
TypeMaps ==
  {CoreOids \cup ids \cup pages :
     ids \in {{}, {"ID#1"}, {"ID#2"}}, pages \in {{}, {"Page"}}}
MemberSets == {{"User"}, {"Comment"}, {"Page", "Comment"}}

SchemasOver(typeMaps, memberSets, directiveSeqs) ==
  {s \in [types : typeMaps, members : memberSets, directives : directiveSeqs,
          query : {Named("User")}, mutation : {Named("Comment")},
          subscription : {Undefined}] :
     s.members \subseteq s.types}

Skip == [name |-> "skip", loc |-> "FIELD"]
Include == [name |-> "include", loc |-> "FIELD"]

NoCall == [fn |-> "none"]

Idle ==
  /\ pc = "idle"
  /\ unmodifiedType = Undefined
  /\ iters = 0

\* Type calls: every schema, type reference and name.
Init ==
  /\ schema \in SchemasOver(TypeMaps, MemberSets, {<<Include, Skip>>})
  /\ original = schema
  /\ ncalls = 0
  /\ inType \in TypeRefs
  /\ inName \in TypeNames
  /\ inAst = Null
  /\ Idle
  /\ ret = NoCall

\* schemaWithDirectives calls: every directive set of the base schema.
InitCompose ==
  /\ schema \in SchemasOver({CoreOids \cup {"ID#1"}, CoreOids \cup {"ID#1", "Page"}},
                            {{"User"}},
                            {<<>>, <<Include>>, <<Include, Skip>>})
  /\ original = schema
  /\ ncalls = 0
  /\ inType = Undefined
  /\ inName = ""
  /\ inAst = Null
  /\ Idle
  /\ ret = NoCall

\* AST calls: every syntax node.
InitAST ==
  /\ schema \in SchemasOver({CoreOids \cup {"ID#1"}}, {{"User"}}, {<<Include, Skip>>})
  /\ original = schema
  /\ ncalls = 0
  /\ inType = Undefined
  /\ inName = ""
  /\ inAst \in ASTNodes
  /\ Idle
  /\ ret = NoCall

\* -------------------------------------------------------------------- actions
\* JavaScript runs each call to completion: a call starts only when none runs.
MayImplement ==
  /\ pc = "idle"
  /\ LET r == mayImplement(schema, inType, inName)
     IN  ret' = [fn |-> "mayImplement",
                 val |-> IF r.threw THEN "InvariantViolation" ELSE Js(r.val),
                 probed |-> r.probed]
  /\ UNCHANGED <<schema, original, ncalls, inType, inName, inAst, pc, unmodifiedType, iters>>

HasID ==
  /\ pc = "idle"
  /\ ret' = [fn |-> "hasID", val |-> hasID(schema, inType)]
  /\ UNCHANGED <<schema, original, ncalls, inType, inName, inAst, pc, unmodifiedType, iters>>

ImplementsInterface ==
  /\ pc = "idle"
  /\ ret' = [fn |-> "implementsInterface",
             val |-> Js(implementsInterface(inType, inName))]
  /\ UNCHANGED <<schema, original, ncalls, inType, inName, inAst, pc, unmodifiedType, iters>>

CanHaveSelections ==
  /\ pc = "idle"
  /\ ret' = [fn |-> "canHaveSelections", val |-> Js(canHaveSelections(inType))]
  /\ UNCHANGED <<schema, original, ncalls, inType, inName, inAst, pc, unmodifiedType, iters>>

IsAbstractType ==
  /\ pc = "idle"
  /\ ret' = [fn |-> "isAbstractType", val |-> Js(isAbstractType(inType))]
  /\ UNCHANGED <<schema, original, ncalls, inType, inName, inAst, pc, unmodifiedType, iters>>

GetRawType ==
  /\ pc = "idle"
  /\ ret' = [fn |-> "getRawType", out |-> getRawType(inType)]
  /\ UNCHANGED <<schema, original, ncalls, inType, inName, inAst, pc, unmodifiedType, iters>>

\* getSingularType(inType), one step per loop iteration.
GetSingularTypeCall ==
  /\ pc = "idle"
  /\ pc' = "getSingularType"
  /\ unmodifiedType' = inType
  /\ iters' = 0
  /\ ret' = NoCall
  /\ UNCHANGED <<schema, original, ncalls, inType, inName, inAst>>

GetSingularTypeLoop ==
  /\ pc = "getSingularType"
  /\ isGraphQLList(unmodifiedType)
  /\ unmodifiedType' = unmodifiedType.ofType
  /\ iters' = iters + 1
  /\ UNCHANGED <<schema, original, ncalls, inType, inName, inAst, pc, ret>>

GetSingularTypeReturn ==
  /\ pc = "getSingularType"
  /\ ~isGraphQLList(unmodifiedType)
  /\ ret' = [fn |-> "getSingularType", out |-> unmodifiedType, iters |-> iters]
  /\ pc' = "idle"
  /\ unmodifiedType' = Undefined
  /\ iters' = 0
  /\ UNCHANGED <<schema, original, ncalls, inType, inName, inAst>>

IsOperationDefinitionAST ==
  /\ pc = "idle"
  /\ ret' = [fn |-> "isOperationDefinitionAST",
             val |-> Js(isOperationDefinitionAST(inAst))]
  /\ UNCHANGED <<schema, original, ncalls, inType, inName, inAst, pc, unmodifiedType, iters>>

GetOperationDefinitionAST ==
  /\ pc = "idle"
  /\ ret' = [fn |-> "getOperationDefinitionAST",
             out |-> getOperationDefinitionAST(inAst)]
  /\ UNCHANGED <<schema, original, ncalls, inType, inName, inAst, pc, unmodifiedType, iters>>

IsSchemaDefinitionAST ==
  /\ pc = "idle"
  /\ ret' = [fn |-> "isSchemaDefinitionAST",
             val |-> Js(isSchemaDefinitionAST(inAst))]
  /\ UNCHANGED <<schema, original, ncalls, inType, inName, inAst, pc, unmodifiedType, iters>>

\* One call after another against the same schema object, each with its own
\* `directives` argument.
SchemaWithDirectives ==
  \E directives \in SeqsUpTo(Directives, MaxNew) :
    /\ pc = "idle"
    /\ LET r == schemaWithDirectives(schema, directives)
       IN  /\ schema' = r.source
           /\ ret' = [fn |-> "schemaWithDirectives", directives |-> directives,
                      threw |-> r.threw, error |-> r.error, value |-> r.value]
    /\ ncalls' = IF ncalls < MaxCalls THEN ncalls + 1 ELSE ncalls
    /\ UNCHANGED <<original, inType, inName, inAst, pc, unmodifiedType, iters>>

Next ==
  \/ MayImplement
  \/ HasID
  \/ ImplementsInterface
  \/ CanHaveSelections
  \/ IsAbstractType
  \/ GetRawType
  \/ GetSingularTypeCall
  \/ GetSingularTypeLoop
  \/ GetSingularTypeReturn

Spec == Init /\ [][Next]_vars

NextCompose == SchemaWithDirectives

SpecCompose == InitCompose /\ [][NextCompose]_vars

NextAST ==
  \/ IsOperationDefinitionAST
  \/ GetOperationDefinitionAST
  \/ IsSchemaDefinitionAST

SpecAST == InitAST /\ [][NextAST]_vars

\* ---------------------------------------------------------------- properties
\* Vocabulary of the statements below, defined on the structure of a type
\* reference and on the schema data, not on the operations above.
RECURSIVE Depth(_)
Depth(t) == IF t.kind \in WrapperKinds THEN 1 + Depth(t.ofType) ELSE 0

\* t with its k outermost layers removed.
RECURSIVE Peel(_, _)
Peel(t, k) == IF k = 0 THEN t ELSE Peel(t.ofType, k - 1)

\* The raw type: the named type under all of t's layers.
Innermost(t) == Peel(t, Depth(t))

\* The names of the interfaces a named type object directly declares.
DeclaredNames(oid) == {NameOf(i.oid) : i \in InterfacesOf(oid)}

\* C1: mayImplement(S, ref, typeName) is true exactly when, with R the raw type
\* of ref, (a) R is named typeName, or (b) R is an Object that directly declares
\* typeName, or (c) R is an Interface or Union and one of S's possible types of R
\* is an Object that directly declares typeName; otherwise it is false.  So it
\* is true of R's own name, and false for an abstract R of another name none of
\* whose possible types declares typeName.
C1_MayImplementIff ==
  ret.fn = "mayImplement" =>
    LET R == Innermost(inType)
        a == NameOf(R.oid) = inName
        b == R.kind = "Object" /\ inName \in DeclaredNames(R.oid)
        c == /\ R.kind \in {"Interface", "Union"}
             /\ \E t \in getPossibleTypes(schema, R) :
                  t.kind = "Object" /\ inName \in DeclaredNames(t.oid)
    IN  /\ ret.val = Js(a \/ b \/ c)
        /\ (inName = NameOf(R.oid) => ret.val = "true")
        /\ (R.kind \in {"Interface", "Union"} /\ ~a /\ ~c => ret.val = "false")

\* C1 witness: a wrapped union of another name is found to may-implement an
\* interface through one of its members, while another member does not declare it.
C1_Witness ==
  /\ ret.fn = "mayImplement"
  /\ ret.val = "true"
  /\ inType.kind = "List"
  /\ Innermost(inType).kind = "Union"
  /\ inName = "Node"
  /\ \E o \in schema.members : inName \notin DeclaredNames(o)

\* C10: mayImplement never raises; whatever it hands to the possible-type
\* enumeration is the unwrapped raw type, an Interface or Union, and only after
\* the name check and the declared-interface check have both failed.
C10_MayImplementNeverRaises ==
  ret.fn = "mayImplement" =>
    /\ ret.val # "InvariantViolation"
    /\ \A i \in DOMAIN ret.probed :
         LET p == ret.probed[i]
         IN  /\ p = Innermost(inType)
             /\ p.kind \in {"Interface", "Union"}
             /\ NameOf(p.oid) # inName
             /\ inName \notin DeclaredNames(p.oid)

\* C10 witness: a call on a wrapped abstract type reaches the enumeration.
C10_Witness ==
  /\ ret.fn = "mayImplement"
  /\ Len(ret.probed) = 1
  /\ inType.kind \in WrapperKinds
  /\ ret.val = "false"

\* The raw type has a field "id" whose raw type is the type object the schema
\* registers under "ID".
HasIdentityField(s, R) ==
  /\ ID \in DOMAIN FieldsOf(R.oid)
  /\ \E o \in s.types :
       NameOf(o) = ID_TYPE /\ Innermost(FieldsOf(R.oid)[ID].type) = Named(o)

\* C5 (as claimed): hasID fails with an invariant violation exactly when the raw
\* type is not an Object or Interface; otherwise it returns true if the raw type
\* has an identity field and false if not, in particular false when the field is
\* absent or the schema has no type named "ID".
C5_HasIDReturnsBoolean ==
  ret.fn = "hasID" =>
    LET R == Innermost(inType)
    IN  IF R.kind \in {"Object", "Interface"}
        THEN ret.val = Js(HasIdentityField(schema, R))
        ELSE ret.val = "InvariantViolation"

\* C5 (what the code does): as above, except that with no field named "id" the
\* value returned is undefined, not false.
C5_HasIDFalsy ==
  ret.fn = "hasID" =>
    LET R == Innermost(inType)
    IN  IF R.kind \in {"Object", "Interface"}
        THEN /\ (ret.val = "true") = HasIdentityField(schema, R)
             /\ (ret.val = "undefined") = (ID \notin DOMAIN FieldsOf(R.oid))
             /\ ret.val \in {"true", "false", "undefined"}
        ELSE ret.val = "InvariantViolation"

\* C6 (as claimed): implementsInterface(ref, interfaceName) is true exactly when
\* the raw type of ref is an Object whose declared interfaces include
\* interfaceName.
C6_ImplementsInterfaceOfRawType ==
  ret.fn = "implementsInterface" =>
    LET R == Innermost(inType)
    IN  ret.val = Js(R.kind = "Object" /\ inName \in DeclaredNames(R.oid))

\* C6 (amended): implementsInterface(ref, interfaceName) is true exactly when ref
\* itself, with no List/NonNull layer around it, is an Object whose declared
\* interfaces include interfaceName; it is false for every wrapped reference and
\* whenever the raw type is an Interface, Union, Scalar, Enum or InputObject.
C6_ImplementsInterfaceOfValue ==
  ret.fn = "implementsInterface" =>
    /\ ret.val = Js(/\ Depth(inType) = 0
                    /\ inType.kind = "Object"
                    /\ inName \in DeclaredNames(inType.oid))
    /\ (Innermost(inType).kind # "Object" => ret.val = "false")
    /\ (Depth(inType) > 0 => ret.val = "false")

\* C6 witness: a List/NonNull of an Object that declares the interface is
\* answered false.
C6_Witness ==
  /\ ret.fn = "implementsInterface"
  /\ Depth(inType) > 0
  /\ Innermost(inType).kind = "Object"
  /\ inName \in DeclaredNames(Innermost(inType).oid)
  /\ ret.val = "false"

\* C7 (as claimed): canHaveSelections is true exactly when the raw type is an
\* Object or Interface, and isAbstractType exactly when the raw type is an
\* Interface or Union, so wrapping changes neither answer.
C7_BothClassifyRawType ==
  /\ ret.fn = "canHaveSelections" =>
       ret.val = Js(Innermost(inType).kind \in {"Object", "Interface"})
  /\ ret.fn = "isAbstractType" =>
       ret.val = Js(Innermost(inType).kind \in {"Interface", "Union"})

\* C7 (amended): canHaveSelections is true exactly when the value itself, with no
\* List/NonNull layer around it, is an Object or Interface (it is false for
\* every wrapped reference); isAbstractType is true exactly when the raw type is
\* an Interface or Union, whatever the wrapping.
C7_SelectionsOfValueAbstractOfRawType ==
  /\ ret.fn = "canHaveSelections" =>
       ret.val = Js(Depth(inType) = 0 /\ inType.kind \in {"Object", "Interface"})
  /\ ret.fn = "isAbstractType" =>
       ret.val = Js(Innermost(inType).kind \in {"Interface", "Union"})

\* C7 witness: a wrapped Object or Interface is answered false by
\* canHaveSelections.
C7_Witness ==
  /\ ret.fn = "canHaveSelections"
  /\ Depth(inType) > 0
  /\ Innermost(inType).kind \in {"Object", "Interface"}
  /\ ret.val = "false"

\* C8: getSingularType terminates, within as many iterations as its argument has
\* layers, and returns the argument with its leading List layers removed and
\* nothing else: the result is not a List, every removed layer is a List, and
\* what remains (NonNull layers included) is untouched, so
\* singularType(List(NonNull(T))) is NonNull(T).  getRawType returns the named
\* type under all List and NonNull layers.
C8_SingularAndRawType ==
  /\ pc = "getSingularType" =>
       /\ iters <= Depth(inType)
       /\ iters + Depth(unmodifiedType) = Depth(inType)
  /\ ret.fn = "getSingularType" =>
       /\ ret.out.kind # "List"
       /\ ret.iters <= Depth(inType)
       /\ ret.out = Peel(inType, ret.iters)
       /\ \A j \in 0..(ret.iters - 1) : Peel(inType, j).kind = "List"
       /\ (inType.kind = "List" /\ inType.ofType.kind = "NonNull"
             => ret.out = inType.ofType)
  /\ ret.fn = "getRawType" =>
       /\ ret.out \in NamedTypes
       /\ ret.out = Peel(inType, Depth(inType))

\* C8 witness: nested lists around a NonNull are stripped down to the NonNull.
C8_Witness ==
  /\ ret.fn = "getSingularType"
  /\ ret.iters = 2
  /\ ret.out.kind = "NonNull"
  /\ inType = List(List(ret.out))

\* C9: isOperationDefinitionAST is true exactly for FragmentDefinition and
\* OperationDefinition, isSchemaDefinitionAST exactly for the eight
\* schema-definition kinds, so never both for one node and neither for any other
\* kind; getOperationDefinitionAST returns the node itself when
\* isOperationDefinitionAST holds of it and null otherwise.
C9_ASTClassification ==
  LET isOp == inAst.kind \in {"FragmentDefinition", "OperationDefinition"}
      isDef == inAst.kind \in
                 {"DirectiveDefinition", "EnumTypeDefinition",
                  "InputObjectTypeDefinition", "InterfaceTypeDefinition",
                  "ObjectTypeDefinition", "ScalarTypeDefinition",
                  "TypeExtensionDefinition", "UnionTypeDefinition"}
  IN  /\ ret.fn = "isOperationDefinitionAST" =>
           /\ ret.val = Js(isOp)
           /\ ~(ret.val = "true" /\ isSchemaDefinitionAST(inAst))
           /\ (inAst.kind = "FieldDefinition" => ret.val = "false")
      /\ ret.fn = "isSchemaDefinitionAST" =>
           /\ ret.val = Js(isDef)
           /\ ~(ret.val = "true" /\ isOperationDefinitionAST(inAst))
           /\ (inAst.kind = "FieldDefinition" => ret.val = "false")
      /\ ret.fn = "getOperationDefinitionAST" =>
           ret.out = IF isOp THEN inAst ELSE Null

\* C9 witness: a fragment definition is handed back as itself.
C9_Witness ==
  /\ ret.fn = "getOperationDefinitionAST"
  /\ inAst.kind = "FragmentDefinition"
  /\ ret.out = inAst

\* The positions of a directive sequence whose name occurs at an earlier position.
Repeats(c) == {j \in 1..Len(c) : \E i \in 1..(j - 1) : c[i].name = c[j].name}

\* The least element of a non-empty set of numbers.
Least(S) == CHOOSE x \in S : \A y \in S : x <= y

\* C2: a schemaWithDirectives call fails exactly when the schema's directives at
\* the time of the call followed by the new directives hold two entries of one
\* name, and the error then names the entry at the first position whose name
\* occurred earlier in that sequence.
C2_FailsIffDuplicateName ==
  [][ ret'.fn = "schemaWithDirectives" =>
        LET c == schema.directives \o ret'.directives
        IN  /\ ret'.threw = (Repeats(c) # {})
            /\ ret'.threw => ret'.error = c[Least(Repeats(c))].name
            /\ ~ret'.threw => ret'.error = "" ]_vars

\* C2 witness: a call failed on two new entries of one name that the schema does
\* not have, although the two entries differ in what they define.
C2_Witness ==
  /\ ret.fn = "schemaWithDirectives"
  /\ ret.threw
  /\ Len(ret.directives) = 2
  /\ ret.directives[1].name = ret.directives[2].name
  /\ ret.directives[1] # ret.directives[2]
  /\ ret.error = ret.directives[2].name
  /\ \A i \in DOMAIN original.directives :
       original.directives[i].name # ret.error

\* C3: whatever schemaWithDirectives calls have been made against a schema, and
\* whether they succeeded or failed, the schema's directives, type map and root
\* types are what they were before the first call, and the last call's outcome
\* is the one its own arguments give against that untouched schema.
C3_BaseSchemaUntouched ==
  /\ schema.directives = original.directives
  /\ schema.types = original.types
  /\ schema.members = original.members
  /\ schema.query = original.query
  /\ schema.mutation = original.mutation
  /\ schema.subscription = original.subscription
  /\ ret.fn = "schemaWithDirectives" =>
       LET c == original.directives \o ret.directives
       IN  /\ ret.threw = (Repeats(c) # {})
           /\ ret.threw => ret.value = Undefined
           /\ ~ret.threw => ret.value.directives = c

\* C3 witness: a later call in a sequence succeeded in adding a directive.
C3_Witness ==
  /\ ncalls >= 2
  /\ ret.fn = "schemaWithDirectives"
  /\ ~ret.threw
  /\ Len(ret.directives) >= 1

\* C4: a schemaWithDirectives call that succeeds returns a schema with the root
\* types and the types of the schema it was given and with that schema's
\* directives followed by the new ones, in that order: their number is the sum
\* of the two and their names are distinct.
C4_ResultOfSuccess ==
  [][ ret'.fn = "schemaWithDirectives" /\ ~ret'.threw =>
        LET v == ret'.value
        IN  /\ v.query = schema.query
            /\ v.mutation = schema.mutation
            /\ v.subscription = schema.subscription
            /\ v.types = schema.types
            /\ v.directives = schema.directives \o ret'.directives
            /\ Len(v.directives) = Len(schema.directives) + Len(ret'.directives)
            /\ \A i, j \in DOMAIN v.directives :
                 v.directives[i].name = v.directives[j].name => i = j ]_vars

\* C4 witness: a call added two directives to a schema that already had one.
C4_Witness ==
  /\ ret.fn = "schemaWithDirectives"
  /\ ~ret.threw
  /\ Len(ret.directives) = 2
  /\ Len(original.directives) = 1
  /\ Len(ret.value.directives) = 3

====
